---- MODULE Spec2Model ----
(***************************************************************************)
(* Model of the weather chat client's streaming pipeline:                  *)
(*   lib/api.ts            extractTextFromTokenStream,                     *)
(*                         sendMessageToWeatherAgent                       *)
(*   hooks/useWeatherStream  send, cancel, isLoading, error                *)
(*   components/chat/ChatUI  handleSendMessage, Clear chat, Retry          *)
(* Text is a sequence of one-character strings; a byte stream is a         *)
(* sequence of byte symbols (an ASCII byte is written as its character,    *)
(* the two bytes of the UTF-8 encoding of U+00E9 are "xC3" and "xA9").     *)
(***************************************************************************)
EXTENDS Integers, Sequences, FiniteSets, TLC

\* ------------------------------------------------------------------ text

LF == "\n"
CR == "\r"
BS == "\\"
DQ == "\""
REPL == "uFFFD"

Digits == {"0", "1", "2", "3", "4", "5", "6", "7", "8", "9"}

\* the characters String.prototype.trim removes (those the model's texts use)
IsWS(c) == c \in {" ", "\t", LF, CR}

SubStr(s, a, b) == IF a > b THEN <<>> ELSE SubSeq(s, a, b)

RECURSIVE TrimStart(_)
TrimStart(s) ==
  IF s # <<>> /\ IsWS(Head(s)) THEN TrimStart(Tail(s)) ELSE s

RECURSIVE TrimEnd(_)
TrimEnd(s) ==
  IF s # <<>> /\ IsWS(s[Len(s)]) THEN TrimEnd(SubStr(s, 1, Len(s) - 1)) ELSE s

Trim(s) == TrimEnd(TrimStart(s))

StartsWith(s, p) == Len(s) >= Len(p) /\ SubStr(s, 1, Len(p)) = p

EndsWith(s, p) == Len(s) >= Len(p) /\ SubStr(s, Len(s) - Len(p) + 1, Len(s)) = p

\* index of the first c in s at or after position i, 0 when there is none
RECURSIVE IndexFrom(_, _, _)
IndexFrom(s, c, i) ==
  IF i > Len(s) THEN 0
  ELSE IF s[i] = c THEN i ELSE IndexFrom(s, c, i + 1)

\* index of the last c in s at or before position i, 0 when there is none
RECURSIVE LastIndexUpTo(_, _, _)
LastIndexUpTo(s, c, i) ==
  IF i < 1 THEN 0
  ELSE IF s[i] = c THEN i ELSE LastIndexUpTo(s, c, i - 1)

\* first position at or after i that holds no digit
RECURSIVE DigitRunEnd(_, _)
DigitRunEnd(s, i) ==
  IF i <= Len(s) /\ s[i] \in Digits THEN DigitRunEnd(s, i + 1) ELSE i

RECURSIVE Flatten(_)
Flatten(ss) == IF ss = <<>> THEN <<>> ELSE Head(ss) \o Flatten(Tail(ss))

\* s.split('\n')
RECURSIVE SplitLines(_)
SplitAt(s, i) ==
  IF i = 0 THEN <<s>>
  ELSE <<SubStr(s, 1, i - 1)>> \o SplitLines(SubStr(s, i + 1, Len(s)))

SplitLines(s) == SplitAt(s, IndexFrom(s, LF, 1))

\* cleaned.replace(/\\n/g, '\n'): a backslash followed by n becomes a newline
RECURSIVE NormalizeNewlines(_)
NormalizeNewlines(s) ==
  IF s = <<>> THEN <<>>
  ELSE IF Len(s) >= 2 /\ s[1] = BS /\ s[2] = "n"
       THEN <<LF>> \o NormalizeNewlines(SubStr(s, 3, Len(s)))
       ELSE <<Head(s)>> \o NormalizeNewlines(Tail(s))

\* ------------------------------------------------------------------ JSON.parse
\* JSON.parse as far as extractTextFromTokenStream reads its result: whether the
\* text parses, and which top-level members hold a truthy value. The parser is
\* a pushdown automaton over the characters: pos is the next character, stack
\* the open containers ("O" object, "A" array), expect what may come next,
\* key the name of the top-level member being read, keys the top-level members
\* whose (last) value is truthy.

JsonWS == {" ", "\t", LF, CR}
HexDigits == Digits \cup {"a", "b", "c", "d", "e", "f", "A", "B", "C", "D", "E", "F"}

RECURSIVE JsonSkipWS(_, _)
JsonSkipWS(s, i) ==
  IF i <= Len(s) /\ s[i] \in JsonWS THEN JsonSkipWS(s, i + 1) ELSE i

\* one character or escape of a string literal at position i: how many
\* characters it takes (0: not allowed there) and what it stands for
JsonCharStep(s, i) ==
  IF s[i] \in {LF, CR, "\t"} THEN [len |-> 0, ch |-> ""]
  ELSE IF s[i] # BS THEN [len |-> 1, ch |-> s[i]]
  ELSE IF i + 1 > Len(s) THEN [len |-> 0, ch |-> ""]
  ELSE IF s[i + 1] \in {DQ, BS, "/"} THEN [len |-> 2, ch |-> s[i + 1]]
  ELSE IF s[i + 1] = "n" THEN [len |-> 2, ch |-> LF]
  ELSE IF s[i + 1] = "r" THEN [len |-> 2, ch |-> CR]
  ELSE IF s[i + 1] = "t" THEN [len |-> 2, ch |-> "\t"]
  ELSE IF s[i + 1] \in {"b", "f"} THEN [len |-> 2, ch |-> "ctl"]
  ELSE IF s[i + 1] = "u" /\ i + 5 <= Len(s)
          /\ \A k \in (i + 2)..(i + 5) : s[k] \in HexDigits
       THEN [len |-> 6, ch |-> "uXXXX"]
  ELSE [len |-> 0, ch |-> ""]

\* the string literal whose opening quote is before position i: next is the
\* position after its closing quote (0: no valid literal), str its value
RECURSIVE JsonStringBody(_, _, _)
JsonStringNext(s, i, acc, step) ==
  IF step.len = 0 THEN [next |-> 0, str |-> <<>>]
  ELSE JsonStringBody(s, i + step.len, Append(acc, step.ch))

JsonStringBody(s, i, acc) ==
  IF i > Len(s) THEN [next |-> 0, str |-> <<>>]
  ELSE IF s[i] = DQ THEN [next |-> i + 1, str |-> acc]
  ELSE JsonStringNext(s, i, acc, JsonCharStep(s, i))

NoValue == [next |-> 0, truthy |-> FALSE]

\* a number -?(0|[1-9]\d*)(\.\d+)?([eE][+-]?\d+)? at position i: next is the
\* position after it (0: no number), truthy whether it is not zero. a is where
\* its digits start, b where the integer part ends, c where the fraction ends,
\* d where the digits of the exponent start, e where they end.
JsonNumEnd(s, a, c, next) ==
  [next |-> next, truthy |-> \E k \in a..(c - 1) : s[k] \in (Digits \ {"0"})]

JsonNumExpEnd(s, a, c, d, e) == IF e > d THEN JsonNumEnd(s, a, c, e) ELSE NoValue

JsonNumExpDigits(s, a, c, d) == JsonNumExpEnd(s, a, c, d, DigitRunEnd(s, d))

JsonNumExp(s, a, c) ==
  IF c <= Len(s) /\ s[c] \in {"e", "E"}
  THEN JsonNumExpDigits(s, a, c,
         IF c + 1 <= Len(s) /\ s[c + 1] \in {"+", "-"} THEN c + 2 ELSE c + 1)
  ELSE JsonNumEnd(s, a, c, c)

JsonNumFracEnd(s, a, b, c) == IF c > b + 1 THEN JsonNumExp(s, a, c) ELSE NoValue

JsonNumFrac(s, a, b) ==
  IF ~(b > a /\ (s[a] # "0" \/ b = a + 1)) THEN NoValue
  ELSE IF b <= Len(s) /\ s[b] = "." THEN JsonNumFracEnd(s, a, b, DigitRunEnd(s, b + 1))
  ELSE JsonNumExp(s, a, b)

JsonNumInt(s, a) == JsonNumFrac(s, a, DigitRunEnd(s, a))

JsonNumber(s, i) == JsonNumInt(s, IF i <= Len(s) /\ s[i] = "-" THEN i + 1 ELSE i)

JsonLiteral(s, i, word, truthy) ==
  IF i + Len(word) - 1 <= Len(s) /\ SubStr(s, i, i + Len(word) - 1) = word
  THEN [next |-> i + Len(word), truthy |-> truthy]
  ELSE NoValue

JsonStringValue(lit) == [next |-> lit.next, truthy |-> lit.next # 0 /\ lit.str # <<>>]

\* a string, number or literal at position i
JsonScalar(s, i) ==
  IF s[i] = DQ THEN JsonStringValue(JsonStringBody(s, i + 1, <<>>))
  ELSE IF s[i] = "t" THEN JsonLiteral(s, i, <<"t", "r", "u", "e">>, TRUE)
  ELSE IF s[i] = "f" THEN JsonLiteral(s, i, <<"f", "a", "l", "s", "e">>, FALSE)
  ELSE IF s[i] = "n" THEN JsonLiteral(s, i, <<"n", "u", "l", "l">>, FALSE)
  ELSE JsonNumber(s, i)

JsonBad(st) == [st EXCEPT !.bad = TRUE]

\* a value has ended before position next with the given truthiness, in state
\* st whose stack is that of the value's container
JsonValueEnd(st, next, truthy) ==
  [st EXCEPT !.pos = next,
             !.expect = "commaOrEnd",
             !.keys = IF Len(st.stack) # 1 THEN @
                      ELSE IF truthy THEN @ \cup {st.key} ELSE @ \ {st.key}]

\* the container on top of the stack closes before position i
JsonPop(st, i) ==
  IF Len(st.stack) = 1
  THEN [st EXCEPT !.pos = i, !.stack = <<>>]
  ELSE JsonValueEnd([st EXCEPT !.stack = SubStr(@, 1, Len(@) - 1)], i, TRUE)

JsonTop(st) == st.stack[Len(st.stack)]

\* a member name has been read
JsonKeyEnd(st, lit) ==
  IF lit.next = 0 THEN JsonBad(st)
  ELSE [st EXCEPT !.pos = lit.next,
                  !.expect = "colon",
                  !.key = IF Len(st.stack) = 1 THEN lit.str ELSE @]

JsonScalarEnd(st, val) ==
  IF val.next = 0 THEN JsonBad(st) ELSE JsonValueEnd(st, val.next, val.truthy)

\* one token of the text, which starts at position a
JsonStepAt(s, st, a) ==
  IF a > Len(s) THEN JsonBad(st)
  ELSE IF st.expect \in {"key", "keyOrEnd"}
  THEN IF s[a] = "}" /\ st.expect = "keyOrEnd" THEN JsonPop(st, a + 1)
       ELSE IF s[a] # DQ THEN JsonBad(st)
       ELSE JsonKeyEnd(st, JsonStringBody(s, a + 1, <<>>))
  ELSE IF st.expect = "colon"
  THEN IF s[a] = ":" THEN [st EXCEPT !.pos = a + 1, !.expect = "value"]
       ELSE JsonBad(st)
  ELSE IF st.expect \in {"value", "valueOrEnd"}
  THEN IF s[a] = "]" /\ st.expect = "valueOrEnd" THEN JsonPop(st, a + 1)
       ELSE IF s[a] = "{"
            THEN [st EXCEPT !.pos = a + 1, !.expect = "keyOrEnd",
                            !.stack = Append(@, "O")]
       ELSE IF s[a] = "["
            THEN [st EXCEPT !.pos = a + 1, !.expect = "valueOrEnd",
                            !.stack = Append(@, "A")]
       ELSE JsonScalarEnd(st, JsonScalar(s, a))
  ELSE \* commaOrEnd
       IF s[a] = ","
       THEN [st EXCEPT !.pos = a + 1,
                       !.expect = IF JsonTop(st) = "O" THEN "key" ELSE "value"]
       ELSE IF (s[a] = "}" /\ JsonTop(st) = "O") \/ (s[a] = "]" /\ JsonTop(st) = "A")
            THEN JsonPop(st, a + 1)
       ELSE JsonBad(st)

JsonStep(s, st) == JsonStepAt(s, st, JsonSkipWS(s, st.pos))

RECURSIVE JsonRun(_, _)
JsonRun(s, st) ==
  IF st.bad \/ st.stack = <<>> THEN st ELSE JsonRun(s, JsonStep(s, st))

JsonResult(s, end) ==
  [ok |-> ~end.bad /\ JsonSkipWS(s, end.pos) > Len(s),
   keys |-> IF end.bad THEN {} ELSE end.keys]

\* JSON.parse(s) of a text that starts with "{": ok is FALSE when JSON.parse
\* throws, keys are the top-level members with a truthy value
JsonParseObject(s) ==
  JsonResult(s, JsonRun(s, [pos |-> 2, stack |-> <<"O">>, expect |-> "keyOrEnd",
                            key |-> <<>>, keys |-> {}, bad |-> FALSE]))

\* ------------------------------------------------------------------ extractor

ControlLetters == {"f", "a", "e", "d", "F", "A", "E", "D"}

MetadataKeys ==
  { <<"t", "o", "o", "l", "C", "a", "l", "l", "I", "d">>,
    <<"t", "o", "o", "l", "N", "a", "m", "e">>,
    <<"m", "e", "s", "s", "a", "g", "e", "I", "d">>,
    <<"f", "i", "n", "i", "s", "h", "R", "e", "a", "s", "o", "n">> }

\* the captures m[1] of the successive matches of /\d+:"([\s\S]*?)"/g from
\* position i on: a run of digits, a colon, a quote, then lazily up to the
\* next quote
RECURSIVE QuotedTokens(_, _)
\* a match that starts at i: q is the end of the run of digits, close the
\* closing quote (0: no match at i)
QuotedTokenAt(raw, i, q, close) ==
  IF close = 0 THEN QuotedTokens(raw, i + 1)
  ELSE <<SubStr(raw, q + 2, close - 1)>> \o QuotedTokens(raw, close + 1)

QuotedTokenFrom(raw, i, q) ==
  QuotedTokenAt(raw, i, q,
                IF q + 1 <= Len(raw) /\ raw[q] = ":" /\ raw[q + 1] = DQ
                THEN IndexFrom(raw, DQ, q + 2) ELSE 0)

QuotedTokens(raw, i) ==
  IF i > Len(raw) THEN <<>>
  ELSE IF raw[i] \notin Digits THEN QuotedTokens(raw, i + 1)
  ELSE QuotedTokenFrom(raw, i, DigitRunEnd(raw, i))

\* /^[faed]:/i.test(t)
IsControlFrame(t) == Len(t) >= 2 /\ t[1] \in ControlLetters /\ t[2] = ":"

HasControlPrefix(raw) == IsControlFrame(Trim(raw))

\* /^\d+:/.test(trimmed), q the end of the leading run of digits
IndexPrefixAt(trimmed, q) == q > 1 /\ q <= Len(trimmed) /\ trimmed[q] = ":"

HasIndexPrefix(trimmed) == IndexPrefixAt(trimmed, DigitRunEnd(trimmed, 1))

\* the text after the last closing brace, or '' when no brace pair is found
AfterBraces(afterIndex, firstBrace, lastBrace) ==
  IF firstBrace # 0 /\ lastBrace # 0 /\ lastBrace > firstBrace
  THEN Trim(SubStr(afterIndex, lastBrace + 1, Len(afterIndex)))
  ELSE <<>>

AfterIndex(afterIndex) ==
  AfterBraces(afterIndex, IndexFrom(afterIndex, "{", 1),
              LastIndexUpTo(afterIndex, "}", Len(afterIndex)))

AfterIndexBranch(trimmed) ==
  AfterIndex(SubStr(trimmed, DigitRunEnd(trimmed, 1) + 1, Len(trimmed)))

HasMetadataKey(obj) == obj.ok /\ obj.keys \cap MetadataKeys # {}

IsMetadataObject(trimmed) ==
  /\ StartsWith(trimmed, <<"{">>)
  /\ EndsWith(trimmed, <<"}">>)
  /\ HasMetadataKey(JsonParseObject(trimmed))

ExtractFrom(raw, tokens, trimmed) ==
  IF HasControlPrefix(raw) THEN <<>>
  ELSE IF Len(tokens) > 0 THEN Flatten(tokens)
  ELSE IF HasIndexPrefix(trimmed) THEN AfterIndexBranch(trimmed)
  ELSE IF IsMetadataObject(trimmed) THEN <<>>
  ELSE raw

extractTextFromTokenStream(raw) ==
  ExtractFrom(raw, QuotedTokens(raw, 1), TrimStart(raw))

\* ------------------------------------------------------------------ transport reader

\* TextDecoder('utf-8').decode(value, {stream: true}) over the model's bytes:
\* an ASCII byte decodes to its character, "xC3" opens a two-byte sequence that
\* "xA9" completes to U+00E9; a lead byte with no continuation and a stray
\* continuation decode to U+FFFD. pending is the lead byte carried over to the
\* next call.
EAcute == "uE9"
LeadByte == "xC3"
ContByte == "xA9"

\* the characters one byte adds to the decoded text; held: the byte before it was
\* the lead byte of a two-byte character and is still waiting for its second byte
DecodeByte(b, held) ==
  IF held /\ b = ContByte THEN <<EAcute>>
  ELSE (IF held THEN <<REPL>> ELSE <<>>)
         \o (IF b = LeadByte THEN <<>> ELSE IF b = ContByte THEN <<REPL>> ELSE <<b>>)

Decode(bytes, pending, acc) ==
  [text |-> acc \o Flatten([k \in DOMAIN bytes |->
                              DecodeByte(bytes[k],
                                         IF k = 1 THEN pending ELSE bytes[k - 1] = LeadByte)]),
   pending |-> IF bytes = <<>> THEN pending ELSE bytes[Len(bytes)] = LeadByte]

DataPrefix == <<"d", "a", "t", "a", ":", " ">>
DoneSentinel == <<"[", "D", "O", "N", "E", "]">>

\* onChunk(cleaned) whatever cleaned is
EmitAlways(cleaned) == [kind |-> "emit", text |-> cleaned]

\* if (cleaned) onChunk(cleaned)
EmitIfText(cleaned) ==
  [kind |-> IF cleaned # <<>> THEN "emit" ELSE "none", text |-> cleaned]

\* the data: branch of the for loop's body
DataLine(data) ==
  IF data = DoneSentinel THEN [kind |-> "done", text |-> <<>>]
  ELSE EmitIfText(NormalizeNewlines(extractTextFromTokenStream(data)))

\* what the body of the for loop does with one line: "skip" (blank line),
\* "done" (onComplete(); return), "emit" (onChunk(cleaned)) or "none"
\* (cleaned is empty)
LineStep(line) ==
  IF Trim(line) = <<>> THEN [kind |-> "skip", text |-> <<>>]
  ELSE IF StartsWith(line, DataPrefix) THEN DataLine(SubStr(line, 7, Len(line)))
  ELSE EmitIfText(NormalizeNewlines(extractTextFromTokenStream(line)))

\* the for loop over the complete lines of one read: the callbacks it makes, in
\* order: onChunk(text) per emitted fragment, and onComplete followed by return
\* on the sentinel
RECURSIVE LineLoop(_, _)
AfterLine(lines, acc, st) ==
  IF st.kind = "done" THEN Append(acc, [kind |-> "complete", text |-> <<>>])
  ELSE IF st.kind = "emit"
       THEN LineLoop(Tail(lines), Append(acc, [kind |-> "chunk", text |-> st.text]))
  ELSE LineLoop(Tail(lines), acc)

LineLoop(lines, acc) ==
  IF lines = <<>> THEN acc ELSE AfterLine(lines, acc, LineStep(Head(lines)))

\* a for loop over every segment, the unterminated last one included
SplitAndLoopAll(all, pending) ==
  [buffer |-> <<>>, pending |-> pending, events |-> LineLoop(all, <<>>)]

\* const lines = buffer.split('\n'); buffer = lines.pop() || ''; for (...)
SplitAndLoop(all, pending) ==
  [buffer |-> all[Len(all)], pending |-> pending,
   events |-> LineLoop(SubStr(all, 1, Len(all) - 1), <<>>)]

Decoded(buffer, dec) == SplitAndLoop(SplitLines(buffer \o dec.text), dec.pending)

\* a turn of the while loop that forgets the unterminated rest of the last turn
ProcessChunkNoCarry(buffer, pending, value) ==
  Decoded(<<>>, Decode(value, pending, <<>>))

\* one turn of the while loop after reader.read() returned value: decode,
\* append to buffer, split, keep the last segment, run the for loop
ProcessChunk(buffer, pending, value) == Decoded(buffer, Decode(value, pending, <<>>))

\* ------------------------------------------------------------------ inputs

MaxSends == 2

Tok(d, t) == <<d, ":", DQ>> \o t \o <<DQ>>

Mumbai == <<"M", "u", "m", "b", "a", "i">>
NowLabel == <<"N", "o", "w">>
Celsius28 == <<"2", "8", "C">>

\* a city and its weather in two prefixed tokens, then the sentinel
MumbaiLines ==
  DataPrefix \o Tok("0", Mumbai) \o <<LF>>
    \o DataPrefix \o Tok("0", <<" ">> \o NowLabel \o <<":", " ">> \o Celsius28) \o <<LF>>
    \o DataPrefix \o DoneSentinel \o <<LF>>

\* response bodies the server may stream
Streams ==
  << \* prefixed tokens, a two-byte character, the sentinel, a line after it
     DataPrefix \o Tok("0", <<"H">>) \o <<LF>> \o Tok("0", <<LeadByte, ContByte>>)
       \o <<LF>> \o DataPrefix \o DoneSentinel \o <<LF>> \o Tok("0", <<"z">>) \o <<LF>>,
     \* a bare [DONE] line, a control frame, a blank line, an escaped newline,
     \* a last line with no newline
     DoneSentinel \o <<LF>> \o <<"f", ":", "{", "}", LF>> \o <<" ", LF>>
       \o Tok("1", <<"a", BS, "n">>) \o <<LF>> \o <<"h", "i">>,
     \* two bare tokens and no sentinel
     Tok("0", <<"a">>) \o <<LF>> \o Tok("0", <<"b">>) \o <<LF>>,
     MumbaiLines,
     \* a token line, then a token with no newline after it
     Tok("0", <<"a">>) \o <<LF>> \o DataPrefix \o Tok("0", <<"b">>) >>

\* the bodies the sessions of Spec receive
SessionStreams == {1, 3, 4}

\* non-success responses: status, statusText, body
HttpErrors ==
  { [status |-> "500", statusText |-> "Internal Server Error", body |-> "overloaded"],
    [status |-> "404", statusText |-> "Not Found", body |-> ""] }

\* what the user may type; HasLocation tabulates the three validation regexes of
\* handleSendMessage on them ("Goa" is a single location)
Texts == { <<>>, <<"G", "o", "a">> }

HasLocation(text) == text = <<"G", "o", "a">>

\* who called send: ChatUI ("ui", its onChunk appends to assistantBuffer and to the
\* message), or another caller of the hook whose onChunk only receives
\* ("plain") or calls cancel() on the hook when it has received text ("cancel")
Callbacks == {"plain", "cancel"}

\* ------------------------------------------------------------------ state

VARIABLES
  isLoading,   \* useWeatherStream: useState(false)
  error,       \* useWeatherStream: useState<string | null>(null)
  abortRef,    \* useWeatherStream: abortRef.current, 0 for null, else the call whose controller it is
  ops,         \* the calls of sendMessageToWeatherAgent, in call order
  nOps,        \* how many calls were made
  messages,    \* ChatUI: useState<Message[]>([])
  inputValue,  \* ChatUI: useState('')
  rawFrame,    \* extractTextFromTokenStream: the frame (raw) it is called with
  extracted,   \* extractTextFromTokenStream: what it returned for rawFrame
  agentContent \* formatAgentMessage: the message content it is called with

vars ==
  <<isLoading, error, abortRef, ops, nOps, messages, inputValue, rawFrame, extracted,
    agentContent>>

\* the arguments of the pure functions, which no step of a session changes
pure == <<rawFrame, extracted, agentContent>>

\* no call of extractTextFromTokenStream or formatAgentMessage is under study
NoFrame == [kind |-> "none", text |-> <<>>, parts |-> <<>>]
NotCalled == <<"(not called)">>

\* null; a message is a sequence of pieces of text and none of the model is empty
Null == <<>>

Idle ==
  [pc |-> "idle", aborted |-> FALSE, text |-> <<>>, cb |-> "plain", msgId |-> 0,
   assistantBuffer |-> <<>>, stream |-> 0, pos |-> 0, buffer |-> <<>>,
   pending |-> FALSE, http |-> [status |-> "", statusText |-> "", body |-> ""],
   log |-> <<>>]

Init ==
  /\ isLoading = FALSE
  /\ error = Null
  /\ abortRef = 0
  /\ ops = [i \in 1..MaxSends |-> Idle]
  /\ nOps = 0
  /\ messages = <<>>
  /\ inputValue = <<>>
  /\ rawFrame = NoFrame
  /\ extracted = NotCalled
  /\ agentContent = <<>>

InFlight(op) == op.pc \in {"fetch", "text", "read"}

\* ------------------------------------------------------------------ callbacks
\* A callback works on st = [ops, messages, isLoading, error], the part of the
\* state the callbacks of one turn of the event loop can change. op.log records
\* the callbacks a call has made, in order, each with signal.aborted at the time.

Event(op, kind, text) == [kind |-> kind, text |-> text, aborted |-> op.aborted]

\* ChatUI: setMessages(prev => prev.map(m => m.id === assistantId ? {...m, content} : m))
SetContent(msgs, id, content) ==
  [k \in DOMAIN msgs |->
     IF msgs[k].id = id THEN [msgs[k] EXCEPT !.content = content] ELSE msgs[k]]

\* cancel() of the hook: if (abortRef.current) abortRef.current.abort()
AbortCurrent(o) == IF abortRef # 0 THEN [o EXCEPT ![abortRef].aborted = TRUE] ELSE o

\* an onChunk that puts the new fragment in front of the buffer
OnChunkPrepend(st, i, text) ==
  LET op == st.ops[i]
      buf == text \o op.assistantBuffer
      logged == [st.ops EXCEPT ![i].log = Append(@, Event(op, "chunk", text))]
  IN IF op.cb = "ui"
     THEN [st EXCEPT !.ops = [logged EXCEPT ![i].assistantBuffer = buf],
                     !.messages = SetContent(st.messages, op.msgId, buf)]
     ELSE IF op.cb = "cancel" THEN [st EXCEPT !.ops = AbortCurrent(logged)]
     ELSE [st EXCEPT !.ops = logged]

\* the onChunk a caller gave to send
OnChunk(st, i, text) ==
  LET op == st.ops[i]
      buf == op.assistantBuffer \o text
      logged == [st.ops EXCEPT ![i].log = Append(@, Event(op, "chunk", text))]
  IN IF op.cb = "ui"
     THEN [st EXCEPT !.ops = [logged EXCEPT ![i].assistantBuffer = buf],
                     !.messages = SetContent(st.messages, op.msgId, buf)]
     ELSE IF op.cb = "cancel" THEN [st EXCEPT !.ops = AbortCurrent(logged)]
     ELSE [st EXCEPT !.ops = logged]

\* an onComplete that leaves isLoading as it is
HookOnCompleteKeepsLoading(st, i) ==
  [st EXCEPT !.ops = [@ EXCEPT ![i].log = Append(@, Event(st.ops[i], "complete", <<>>))]]

\* the onComplete send gives to sendMessageToWeatherAgent
HookOnComplete(st, i) ==
  [st EXCEPT !.isLoading = FALSE,
             !.ops = [@ EXCEPT ![i].log = Append(@, Event(st.ops[i], "complete", <<>>))]]

OfflineMessage == <<"You are offline. Check your connection and try again.">>
NetworkMessage == <<"Network error. Please try again.">>
FailedToFetch == <<"Failed to fetch">>
RequestCancelled == <<"Request cancelled">>
NoReader == <<"No response body reader available">>
NetworkError == <<"network error">>

\* a mapping that does not look at navigator.onLine
FriendlyNoOffline(err, onLine) ==
  IF err = FailedToFetch THEN NetworkMessage ELSE err

Friendly(err, onLine) ==
  IF ~onLine THEN OfflineMessage
  ELSE IF err = FailedToFetch THEN NetworkMessage
  ELSE err

\* an onError that also empties the assistant message of the turn
HookOnErrorClears(st, i, err, onLine) ==
  [st EXCEPT !.error = Friendly(err, onLine),
             !.isLoading = FALSE,
             !.messages = SetContent(@, st.ops[i].msgId, <<>>),
             !.ops = [@ EXCEPT ![i].log = Append(@, Event(st.ops[i], "error", err))]]

\* the onError send gives to sendMessageToWeatherAgent
HookOnError(st, i, err, onLine) ==
  [st EXCEPT !.error = Friendly(err, onLine),
             !.isLoading = FALSE,
             !.ops = [@ EXCEPT ![i].log = Append(@, Event(st.ops[i], "error", err))]]

\* the catch block of sendMessageToWeatherAgent, e = [name, message]
Catch(st, i, e, onLine) ==
  HookOnError(st, i, IF e.name = "AbortError" THEN RequestCancelled ELSE e.message, onLine)

AbortError == [name |-> "AbortError", message |-> <<"The user aborted a request.">>]
TypeError(msg) == [name |-> "TypeError", message |-> msg]

\* an error message that leaves the status code out
HttpErrorNoStatus(status, statusText, body) ==
  [name |-> "Error",
   message |-> <<"HTTP ", statusText>> \o (IF body # "" THEN <<" - ", body>> ELSE <<>>)]

\* new Error(`HTTP ${status} ${statusText}${body ? ` - ${body}` : ''}`)
HttpError(status, statusText, body) ==
  [name |-> "Error",
   message |-> <<"HTTP ", status, " ", statusText>>
               \o (IF body # "" THEN <<" - ", body>> ELSE <<>>)]

\* the callbacks of one for loop, made in order
RECURSIVE ApplyEvents(_, _, _)
ApplyEvents(st, i, events) ==
  IF events = <<>> THEN st
  ELSE LET e == Head(events)
       IN ApplyEvents(IF e.kind = "chunk" THEN OnChunk(st, i, e.text)
                      ELSE HookOnComplete(st, i),
                      i, Tail(events))

Now == [ops |-> ops, messages |-> messages, isLoading |-> isLoading, error |-> error]

Commit(st) ==
  /\ ops' = st.ops
  /\ messages' = st.messages
  /\ isLoading' = st.isLoading
  /\ error' = st.error

Settle(st, i) == [st EXCEPT !.ops = [@ EXCEPT ![i].pc = "done"]]

\* ------------------------------------------------------------------ useWeatherStream

\* a call that has settled leaves nothing behind once the next send begins: its
\* record (the locals of the call and the log of its callbacks) is dropped
Retired == [Idle EXCEPT !.pc = "done"]

Retire(o) == [j \in DOMAIN o |-> IF o[j].pc = "done" THEN Retired ELSE o[j]]

\* a send that leaves the controller in abortRef alone
StartSendNoAbort(st, text, cb, msgId) ==
  [st EXCEPT !.isLoading = TRUE,
             !.error = Null,
             !.ops = [Retire(@) EXCEPT ![nOps + 1] =
                        [Idle EXCEPT !.pc = "fetch", !.text = text, !.cb = cb,
                                     !.msgId = msgId]]]

\* send(text, onChunk): abort the controller in abortRef, make a new one, set
\* isLoading and clear error, and call sendMessageToWeatherAgent, which runs up
\* to its await fetch(...)
StartSend(st, text, cb, msgId) ==
  [st EXCEPT !.isLoading = TRUE,
             !.error = Null,
             !.ops = [Retire(AbortCurrent(@)) EXCEPT ![nOps + 1] =
                        [Idle EXCEPT !.pc = "fetch", !.text = text, !.cb = cb,
                                     !.msgId = msgId]]]

\* a caller other than ChatUI calls send
Send(text, cb) ==
  /\ nOps < MaxSends
  /\ Commit(StartSend(Now, text, cb, 0))
  /\ abortRef' = nOps + 1
  /\ nOps' = nOps + 1
  /\ UNCHANGED inputValue
  /\ UNCHANGED pure

\* cancel()
Cancel ==
  /\ abortRef # 0
  /\ ops' = AbortCurrent(ops)
  /\ UNCHANGED <<isLoading, error, abortRef, nOps, messages, inputValue>>
  /\ UNCHANGED pure

\* ------------------------------------------------------------------ sendMessageToWeatherAgent

\* fetch rejects: no response (connection refused, DNS, CORS ...)
FetchFail(i, onLine) ==
  /\ ops[i].pc = "fetch" /\ ~ops[i].aborted
  /\ Commit(Settle(Catch(Now, i, TypeError(FailedToFetch), onLine), i))
  /\ UNCHANGED <<abortRef, nOps, inputValue>>
  /\ UNCHANGED pure

\* fetch resolves with !response.ok: the call awaits response.text()
FetchHttpError(i, h) ==
  /\ ops[i].pc = "fetch" /\ ~ops[i].aborted
  /\ ops' = [ops EXCEPT ![i].pc = "text", ![i].http = h]
  /\ UNCHANGED <<isLoading, error, abortRef, nOps, messages, inputValue>>
  /\ UNCHANGED pure

\* response.text() settles; a rejection (the abort, a broken connection) is
\* caught and gives ''; then the HTTP error is thrown
TextSettle(i, rejected, onLine) ==
  /\ ops[i].pc = "text"
  /\ ops[i].aborted => rejected
  /\ LET h == ops[i].http
         body == IF rejected THEN "" ELSE h.body
     IN Commit(Settle(Catch(Now, i, HttpError(h.status, h.statusText, body), onLine), i))
  /\ UNCHANGED <<abortRef, nOps, inputValue>>
  /\ UNCHANGED pure

\* fetch resolves with response.ok and no body: reader is undefined
FetchNoBody(i, onLine) ==
  /\ ops[i].pc = "fetch" /\ ~ops[i].aborted
  /\ Commit(Settle(Catch(Now, i, [name |-> "Error", message |-> NoReader], onLine), i))
  /\ UNCHANGED <<abortRef, nOps, inputValue>>
  /\ UNCHANGED pure

\* fetch resolves with response.ok and a body: the call awaits reader.read()
FetchStream(i, s) ==
  /\ ops[i].pc = "fetch" /\ ~ops[i].aborted
  /\ ops' = [ops EXCEPT ![i].pc = "read", ![i].stream = s]
  /\ UNCHANGED <<isLoading, error, abortRef, nOps, messages, inputValue>>
  /\ UNCHANGED pure

\* the awaited fetch or read rejects with AbortError once the signal is aborted
AbortReject(i, onLine) ==
  /\ ops[i].pc \in {"fetch", "read"} /\ ops[i].aborted
  /\ Commit(Settle(Catch(Now, i, AbortError, onLine), i))
  /\ UNCHANGED <<abortRef, nOps, inputValue>>
  /\ UNCHANGED pure

Returned(events) == \E k \in DOMAIN events : events[k].kind = "complete"

\* a for loop that goes on reading after the sentinel
AfterLoopNoReturn(st, i, events) == st

AfterLoop(st, i, events) == IF Returned(events) THEN Settle(st, i) ELSE st

\* the state after one turn of the while loop that consumed k bytes and made
\* the callbacks of r
AfterRead(st, i, k, r) ==
  AfterLoop(ApplyEvents([st EXCEPT !.ops = [@ EXCEPT ![i].pos = @ + k,
                                                     ![i].buffer = r.buffer,
                                                     ![i].pending = r.pending]],
                        i, r.events),
            i, r.events)

\* reader.read() resolves with the next k bytes of the body: one turn of the
\* while loop, up to the next await reader.read() or the return on the sentinel
ReadChunk(i, k) ==
  /\ ops[i].pc = "read" /\ ~ops[i].aborted
  /\ k \in 1..(Len(Streams[ops[i].stream]) - ops[i].pos)
  /\ Commit(AfterRead(Now, i, k,
                      ProcessChunk(ops[i].buffer, ops[i].pending,
                                   SubSeq(Streams[ops[i].stream], ops[i].pos + 1,
                                          ops[i].pos + k))))
  /\ UNCHANGED <<abortRef, nOps, inputValue>>
  /\ UNCHANGED pure

\* reader.read() resolves with done: break, then onComplete()
ReadEnd(i) ==
  /\ ops[i].pc = "read" /\ ~ops[i].aborted
  /\ ops[i].pos = Len(Streams[ops[i].stream])
  /\ Commit(Settle(HookOnComplete(Now, i), i))
  /\ UNCHANGED <<abortRef, nOps, inputValue>>
  /\ UNCHANGED pure

\* reader.read() rejects: the connection broke
ReadFail(i, onLine) ==
  /\ ops[i].pc = "read" /\ ~ops[i].aborted
  /\ Commit(Settle(Catch(Now, i, TypeError(NetworkError), onLine), i))
  /\ UNCHANGED <<abortRef, nOps, inputValue>>
  /\ UNCHANGED pure

\* the answers of the transport that take no parameter of the body
Arrive(i) ==
  \/ \E onLine \in BOOLEAN : FetchFail(i, onLine)
  \/ \E h \in HttpErrors : FetchHttpError(i, h)
  \/ \E rejected, onLine \in BOOLEAN : TextSettle(i, rejected, onLine)
  \/ \E onLine \in BOOLEAN : FetchNoBody(i, onLine)
  \/ \E onLine \in BOOLEAN : AbortReject(i, onLine)
  \/ ReadEnd(i)
  \/ \E onLine \in BOOLEAN : ReadFail(i, onLine)

Remaining(i) ==
  IF ops[i].pc = "read" THEN Len(Streams[ops[i].stream]) - ops[i].pos ELSE 0

\* the chunk sizes that end the chunk after a newline or at the end of the body
LineCuts(i) ==
  { k \in 1..Remaining(i) :
      k = Remaining(i) \/ Streams[ops[i].stream][ops[i].pos + k] = LF }

\* Spec: the server flushes whole lines (one or several per chunk, and the rest
\* of the body at its end); ReaderSpec cuts the body at every byte
Transport(i) ==
  \/ Arrive(i)
  \/ \E s \in SessionStreams : FetchStream(i, s)
  \/ \E k \in LineCuts(i) : ReadChunk(i, k)

\* ------------------------------------------------------------------ ChatUI

ValidationMessage ==
  <<"Please ask a weather question with a location (e.g., 'Weather in London?' or just 'Mumbai').">>

\* onChange of the input box
SetInputValue(v) ==
  /\ v # inputValue
  /\ inputValue' = v
  /\ UNCHANGED <<isLoading, error, abortRef, ops, nOps, messages>>
  /\ UNCHANGED pure

\* handleSendMessage from a state st in which the handler's closure sees
\* loading; Date.now() is the number of the turn, so the ids of a turn are new
SendMessageBody(st, loading) ==
  LET text == Trim(inputValue)
      userMsg == [id |-> 2 * nOps + 1, type |-> "user", content |-> text]
      assistantId == 2 * nOps + 2
      agentMsg == [id |-> assistantId, type |-> "agent", content |-> <<>>]
  IN IF text = <<>> \/ loading THEN st
     ELSE IF ~HasLocation(text) THEN [st EXCEPT !.error = ValidationMessage]
     ELSE StartSend([st EXCEPT !.messages = @ \o <<userMsg, agentMsg>>],
                    text, "ui", assistantId)

Sends(loading) == Trim(inputValue) # <<>> /\ ~loading /\ HasLocation(Trim(inputValue))

\* Enter or the Send button
HandleSendMessage ==
  /\ Trim(inputValue) # <<>> /\ ~isLoading
  /\ Sends(isLoading) => nOps < MaxSends
  /\ Commit(SendMessageBody(Now, isLoading))
  /\ inputValue' = IF Sends(isLoading) THEN <<>> ELSE inputValue
  /\ abortRef' = IF Sends(isLoading) THEN nOps + 1 ELSE abortRef
  /\ nOps' = IF Sends(isLoading) THEN nOps + 1 ELSE nOps
  /\ UNCHANGED pure

\* the Clear chat button: cancel(); setMessages([]); setError(null)
ClearChat ==
  /\ ops' = AbortCurrent(ops)
  /\ messages' = <<>>
  /\ error' = Null
  /\ UNCHANGED <<isLoading, abortRef, nOps, inputValue>>
  /\ UNCHANGED pure

\* the Retry link of the error banner: setError(null); handleSendMessage()
Retry ==
  /\ error # Null
  /\ Sends(isLoading) => nOps < MaxSends
  /\ Commit(SendMessageBody([Now EXCEPT !.error = Null], isLoading))
  /\ inputValue' = IF Sends(isLoading) THEN <<>> ELSE inputValue
  /\ abortRef' = IF Sends(isLoading) THEN nOps + 1 ELSE abortRef
  /\ nOps' = IF Sends(isLoading) THEN nOps + 1 ELSE nOps
  /\ UNCHANGED pure

\* ------------------------------------------------------------------ specification

Next ==
  \/ \E cb \in Callbacks : Send(<<"G", "o", "a">>, cb)
  \/ Cancel
  \/ \E i \in 1..MaxSends : Transport(i)
  \/ \E v \in Texts : SetInputValue(v)
  \/ HandleSendMessage
  \/ ClearChat
  \/ Retry

Spec == Init /\ [][Next]_vars

\* the event loop runs every settled promise's continuation: no call of
\* sendMessageToWeatherAgent waits forever once the transport can answer
LiveSpec == Spec /\ \A i \in 1..MaxSends : WF_vars(Transport(i))

\* one call of sendMessageToWeatherAgent, started by send, whose body arrives
\* cut at arbitrary bytes
ReaderInit ==
  /\ isLoading = TRUE
  /\ error = Null
  /\ abortRef = 1
  /\ \E cb \in Callbacks :
       ops = [i \in 1..MaxSends |->
                IF i = 1 THEN [Idle EXCEPT !.pc = "fetch", !.cb = cb] ELSE Idle]
  /\ nOps = 1
  /\ messages = <<>>
  /\ inputValue = <<>>
  /\ rawFrame = NoFrame
  /\ extracted = NotCalled
  /\ agentContent = <<>>

ReaderNext ==
  \/ Arrive(1)
  \/ \E s \in DOMAIN Streams : FetchStream(1, s)
  \/ \E k \in 1..Remaining(1) : ReadChunk(1, k)
  \/ Cancel

ReaderSpec == ReaderInit /\ [][ReaderNext]_vars

\* ------------------------------------------------------------------ calls of the extractor

\* a token of the stream: a run of digits, a colon, and a quoted text
TokenText(ds, t) == ds \o <<":", DQ>> \o t \o <<DQ>>

TokDigits == { <<"0">>, <<"1", "2">> }

\* quoted texts as the server writes them (a quote inside a text is escaped):
\* plain text, text that looks like the start of a token or like an object or
\* a control frame, an escaped newline, escaped quotes, and the empty text
TokContents ==
  { <<>>, <<"a">>, <<"H", "i", " ">>, <<"1", ":">>, <<"{", "}">>, <<"e", ":">>,
    <<BS, "n">>, <<BS, DQ, "q", BS, DQ>> }

MaxTokens == 2

TokenSeqs == UNION { [1..n -> TokDigits \X TokContents] : n \in 1..MaxTokens }

\* a frame made of the tokens toks; parts are their quoted texts
TokenFrame(toks) ==
  [kind |-> "tokens",
   text |-> Flatten([k \in DOMAIN toks |-> TokenText(toks[k][1], toks[k][2])]),
   parts |-> [k \in DOMAIN toks |-> toks[k][2]]]

TokenFrames == { TokenFrame(toks) : toks \in TokenSeqs }

\* a bare JSON object: member names and the texts of their values
MemberNames == MetadataKeys \cup { <<"t", "e", "x", "t">> }

MemberValues ==
  { <<DQ, "x", DQ>>, <<DQ, DQ>>, <<"0">>, <<"n", "u", "l", "l">>,
    <<"f", "a", "l", "s", "e">>, <<"{", "}">> }

MaxMembers == 2

MemberSeqs == UNION { [1..n -> MemberNames \X MemberValues] : n \in 1..MaxMembers }

MemberText(m) == <<DQ>> \o m[1] \o <<DQ, ":">> \o m[2]

RECURSIVE JoinMembers(_)
JoinMembers(ms) ==
  IF Len(ms) = 1 THEN MemberText(ms[1])
  ELSE MemberText(ms[1]) \o <<",">> \o JoinMembers(Tail(ms))

\* the object with the members ms; parts are the names of its members
ObjectFrame(ms) ==
  [kind |-> "object",
   text |-> <<"{">> \o JoinMembers(ms) \o <<"}">>,
   parts |-> [k \in DOMAIN ms |-> ms[k][1]]]

ObjectFrames == { ObjectFrame(ms) : ms \in MemberSeqs }

\* every short frame over a digit, the colon, a letter, the space and the braces
FrameChars == {"1", ":", "a", " ", "{", "}"}

MaxChars == 3

CharFrames ==
  { [kind |-> "chars", text |-> t, parts |-> <<>>] :
      t \in UNION { [1..n -> FrameChars] : n \in 0..MaxChars } }

Frames == TokenFrames \cup ObjectFrames \cup CharFrames

\* one call extractTextFromTokenStream(raw) for a frame of Frames
ExtractInit ==
  /\ isLoading = FALSE
  /\ error = Null
  /\ abortRef = 0
  /\ ops = [i \in 1..MaxSends |-> Idle]
  /\ nOps = 0
  /\ messages = <<>>
  /\ inputValue = <<>>
  /\ rawFrame \in Frames
  /\ extracted = NotCalled
  /\ agentContent = <<>>

Extract ==
  /\ extracted = NotCalled
  /\ extracted' = extractTextFromTokenStream(rawFrame.text)
  /\ UNCHANGED <<isLoading, error, abortRef, ops, nOps, messages, inputValue,
                 rawFrame, agentContent>>

ExtractSpec == ExtractInit /\ [][Extract]_vars

\* ------------------------------------------------------------------ formatAgentMessage

EmDash == "u2014"

Letters ==
  {"a", "b", "c", "d", "e", "f", "g", "h", "i", "j", "k", "l", "m", "n", "o", "p", "q",
   "r", "s", "t", "u", "v", "w", "x", "y", "z", "A", "B", "C", "D", "E", "F", "G", "H",
   "I", "J", "K", "L", "M", "N", "O", "P", "Q", "R", "S", "T", "U", "V", "W", "X", "Y",
   "Z"}

\* [A-Za-z .()] of titleRe and [A-Za-z ()] of emphasizeLabel
TitleChars == Letters \cup {" ", ".", "(", ")"}
LabelChars == Letters \cup {" ", "(", ")"}

\* first position at or after i that holds no white space
RECURSIVE WsRunEnd(_, _)
WsRunEnd(s, i) == IF i <= Len(s) /\ IsWS(s[i]) THEN WsRunEnd(s, i + 1) ELSE i

\* content.replace(/\r/g, '')
RECURSIVE RemoveCR(_)
RemoveCR(s) ==
  IF s = <<>> THEN <<>>
  ELSE IF Head(s) = CR THEN RemoveCR(Tail(s)) ELSE <<Head(s)>> \o RemoveCR(Tail(s))

\* first position at or after i that holds no newline
RECURSIVE LfRunEnd(_, _)
LfRunEnd(s, i) == IF i <= Len(s) /\ s[i] = LF THEN LfRunEnd(s, i + 1) ELSE i

\* .replace(/\n{3,}/g, '\n\n') from position i on, e the end of the run of
\* newlines that starts at i
RECURSIVE CollapseNewlines(_, _)
CollapseRun(s, i, e) ==
  IF e = i THEN <<s[i]>> \o CollapseNewlines(s, i + 1)
  ELSE (IF e - i >= 3 THEN <<LF, LF>> ELSE SubStr(s, i, e - 1)) \o CollapseNewlines(s, e)

CollapseNewlines(s, i) == IF i > Len(s) THEN <<>> ELSE CollapseRun(s, i, LfRunEnd(s, i))

\* const lines = normalized.split('\n')
NormalizedLines(text) == SplitLines(CollapseNewlines(RemoveCR(text), 1))

\* .replace(/\s+/g, ' ') from position i on
RECURSIVE CollapseWS(_, _)
CollapseWS(s, i) ==
  IF i > Len(s) THEN <<>>
  ELSE IF IsWS(s[i]) THEN <<" ">> \o CollapseWS(s, WsRunEnd(s, i))
  ELSE <<s[i]>> \o CollapseWS(s, i + 1)

\* the separator of titleRe, (?:\s*[-]\s*|\s*:\s*) with a hyphen or an em dash
\* as the dash, or of emphasizeLabel, :\s*, tried at position e: the position
\* after it, 0 when it does not match. marks are the characters it accepts,
\* lead whether white space may come before them
SepAfter(line, a, marks) ==
  IF a <= Len(line) /\ line[a] \in marks THEN WsRunEnd(line, a + 1) ELSE 0

SepAt(line, e, re) == SepAfter(line, IF re.lead THEN WsRunEnd(line, e) ELSE e, re.marks)

\* the lazy group ([...]+?) that starts at p and has reached e: the least end
\* from which the separator matches, 0 when there is none
RECURSIVE ScanLazy(_, _, _, _)
ScanLazy(line, p, e, re) ==
  IF e > Len(line) \/ line[e - 1] \notin re.chars THEN 0
  ELSE IF SepAt(line, e, re) # 0 THEN e
  ELSE ScanLazy(line, p, e + 1, re)

NoMatch == [ok |-> FALSE, head |-> <<>>, rest |-> <<>>]

\* the groups of a match whose lazy group is line[p..e-1]
Groups(line, p, e, re) ==
  IF e = 0 THEN NoMatch
  ELSE [ok |-> TRUE, head |-> SubStr(line, p, e - 1),
        rest |-> SubStr(line, SepAt(line, e, re), Len(line))]

\* the match with the lazy group starting at p; when there is none the engine
\* gives back white space of the leading \s* down to position lo
RECURSIVE MatchFrom(_, _, _, _)
MatchOr(line, p, lo, re, m) ==
  IF m.ok \/ p <= lo THEN m ELSE MatchFrom(line, p - 1, lo, re)

MatchFrom(line, p, lo, re) ==
  MatchOr(line, p, lo, re, Groups(line, p, ScanLazy(line, p, p + 1, re), re))

titleRe == [chars |-> TitleChars, marks |-> {"-", EmDash, ":"}, lead |-> TRUE]
labelRe == [chars |-> LabelChars, marks |-> {":"}, lead |-> FALSE]

\* line.match(/^-?\s*([A-Za-z .()]+?)(?:\s*[-]\s*|\s*:\s*)(.*)$/)
\* a title needs a dash: the colon is no separator
TitleMatchNoColon(line) ==
  IF line[1] = "-"
  THEN MatchFrom(line, WsRunEnd(line, 2), 2, [titleRe EXCEPT !.marks = {"-", EmDash}])
  ELSE MatchFrom(line, 1, 1, [titleRe EXCEPT !.marks = {"-", EmDash}])

TitleMatch(line) ==
  IF line[1] = "-" THEN MatchFrom(line, WsRunEnd(line, 2), 2, titleRe)
  ELSE MatchFrom(line, 1, 1, titleRe)

\* row.match(/^\s*([A-Za-z ()]+?):\s*(.*)$/)
LabelMatch(row) == MatchFrom(row, WsRunEnd(row, 1), 1, labelRe)

\* line.replace(/^-\s+/, '')
StripBullet(line) ==
  IF Len(line) >= 2 /\ line[1] = "-" /\ IsWS(line[2])
  THEN SubStr(line, WsRunEnd(line, 2), Len(line)) ELSE line

\* the for loop over the lines: secs are the sections pushed so far, the last
\* of them being current when open is TRUE
RECURSIVE SectionLoop(_, _, _)
SectionLine(lines, secs, open, line, m) ==
  IF line = <<>> THEN SectionLoop(Tail(lines), secs, open)
  ELSE IF m.ok
  THEN SectionLoop(Tail(lines),
                   Append(secs, [title |-> Trim(CollapseWS(m.head, 1)),
                                 rows |-> IF m.rest # <<>> THEN <<m.rest>> ELSE <<>>]),
                   TRUE)
  ELSE IF open
  THEN SectionLoop(Tail(lines),
                   [secs EXCEPT ![Len(secs)].rows = Append(@, StripBullet(line))], TRUE)
  ELSE SectionLoop(Tail(lines), secs, open)

SectionTrimmed(lines, secs, open, line) ==
  SectionLine(lines, secs, open, line, IF line = <<>> THEN NoMatch ELSE TitleMatch(line))

SectionLoop(lines, secs, open) ==
  IF lines = <<>> THEN secs
  ELSE SectionTrimmed(lines, secs, open, Trim(Head(lines)))

\* r.replace(/\\n/g, ' '): a backslash followed by n becomes a space
RECURSIVE EscapedNewlinesToSpace(_)
EscapedNewlinesToSpace(s) ==
  IF s = <<>> THEN <<>>
  ELSE IF Len(s) >= 2 /\ s[1] = BS /\ s[2] = "n"
       THEN <<" ">> \o EscapedNewlinesToSpace(SubStr(s, 3, Len(s)))
       ELSE <<Head(s)>> \o EscapedNewlinesToSpace(Tail(s))

Stars == <<"*", "*">>

\* the first match of /\*\*[^*]+\*\*/ at or after i: [from, to], from = 0 when
\* there is none; r is the first star at or after i + 2
RECURSIVE BoldFrom(_, _)
BoldAt(text, i, r) ==
  IF r > i + 2 /\ r + 1 <= Len(text) /\ text[r + 1] = "*"
  THEN [from |-> i, to |-> r + 1]
  ELSE BoldFrom(text, i + 1)

BoldFrom(text, i) ==
  IF i + 4 > Len(text) THEN [from |-> 0, to |-> 0]
  ELSE IF text[i] = "*" /\ text[i + 1] = "*" THEN BoldAt(text, i, IndexFrom(text, "*", i + 2))
  ELSE BoldFrom(text, i + 1)

\* text.split(/(\*\*[^*]+\*\*)/g)
RECURSIVE SplitBold(_)
SplitBoldAt(text, m) ==
  IF m.from = 0 THEN <<text>>
  ELSE <<SubStr(text, 1, m.from - 1), SubStr(text, m.from, m.to)>>
         \o SplitBold(SubStr(text, m.to + 1, Len(text)))

SplitBold(text) == SplitBoldAt(text, BoldFrom(text, 1))

\* <strong>{part.slice(2, -2)}</strong> or <span>{part}</span>
BoldPart(part) ==
  IF StartsWith(part, Stars) /\ EndsWith(part, Stars)
  THEN [tag |-> "strong", text |-> SubStr(part, 3, Len(part) - 2)]
  ELSE [tag |-> "span", text |-> part]

renderInlineBold(text) == [k \in DOMAIN SplitBold(text) |-> BoldPart(SplitBold(text)[k])]

\* <li> of a section: emphasizeLabel(r) when the row has a label, else
\* renderInlineBold(r)
RowItem(r, m) ==
  IF m.ok
  THEN <<[tag |-> "strong", text |-> Append(m.head, ":")], [tag |-> "span", text |-> m.rest]>>
  ELSE renderInlineBold(r)

IsText(r) == r # <<>>

CleanRow(r) == Trim(EscapedNewlinesToSpace(r))

\* sec.rows.map(r => r.replace(/\\n/g, ' ').trim()).filter(Boolean).map(<li>)
RowItems(rows) ==
  [k \in DOMAIN rows |-> RowItem(rows[k], LabelMatch(rows[k]))]

SectionUnit(sec) ==
  [tag |-> "section", title |-> sec.title,
   items |-> RowItems(SelectSeq([k \in DOMAIN sec.rows |-> CleanRow(sec.rows[k])], IsText))]

\* flushList(): the list items collected become one <ul>
FlushList(st) ==
  IF st.list = <<>> THEN st
  ELSE [elements |-> Append(st.elements, [tag |-> "ul", title |-> <<>>, items |-> st.list]),
        list |-> <<>>]

Element(st, el) == [FlushList(st) EXCEPT !.elements = Append(@, el)]

\* the body of lines.forEach of the fallback rendering
FallbackLine(st, line, trimmed) ==
  IF trimmed = <<>> THEN FlushList(st)
  ELSE IF StartsWith(trimmed, Stars) /\ EndsWith(trimmed, Stars)
  THEN Element(st, [tag |-> "h2", title |-> SubStr(trimmed, 3, Len(trimmed) - 2),
                    items |-> <<>>])
  ELSE IF Len(trimmed) >= 2 /\ trimmed[1] \in Letters /\ trimmed[2] = "."
  THEN Element(st, [tag |-> "letter", title |-> SubStr(trimmed, 1, 2),
                    items |-> <<renderInlineBold(Trim(SubStr(trimmed, 3, Len(trimmed))))>>])
  ELSE IF StartsWith(trimmed, <<"-", " ">>)
  THEN [st EXCEPT !.list = Append(@, renderInlineBold(SubStr(trimmed, 3, Len(trimmed))))]
  ELSE Element(st, [tag |-> "p", title |-> <<>>, items |-> <<renderInlineBold(line)>>])

RECURSIVE FallbackLoop(_, _)
FallbackLoop(lines, st) ==
  IF lines = <<>> THEN FlushList(st).elements
  ELSE FallbackLoop(Tail(lines), FallbackLine(st, Head(lines), Trim(Head(lines))))

\* what formatAgentMessage returns for the lines and the sections found: one
\* unit per section, or the elements of the fallback rendering
RenderUnits(lines, secs) ==
  IF Len(secs) > 0 THEN [k \in DOMAIN secs |-> SectionUnit(secs[k])]
  ELSE FallbackLoop(lines, [elements |-> <<>>, list |-> <<>>])

FormatLines(lines) == RenderUnits(lines, SectionLoop(lines, <<>>, FALSE))

formatAgentMessage(text) == FormatLines(NormalizedLines(text))

\* ------------------------------------------------------------------ renders of a growing message buffer

Delhi == <<"D", "e", "l", "h", "i">>
Tomorrow == <<"T", "o", "m", "o", "r", "r", "o", "w">>

\* the cities of the weather reports: the label of the title line and the
\* values of the bullets
Cities ==
  << [city |-> Mumbai, label |-> NowLabel,
      values |-> <<Celsius28, <<"6", "0", "%">>, <<"5">>, <<"1">>>>],
     [city |-> Delhi, label |-> Tomorrow,
      values |-> <<<<"3", "2", "C">>, <<"4", "0", "%">>, <<"9">>, <<"2">>>>] >>

BulletLabels ==
  << <<"T", "e", "m", "p", "e", "r", "a", "t", "u", "r", "e">>,
     <<"H", "u", "m", "i", "d", "i", "t", "y">>,
     <<"W", "i", "n", "d">>,
     <<"R", "a", "i", "n">> >>

MaxBullets == 2
MaxBlocks == 2
MaxAppends == 2

\* "City - Label:" with an em dash
TitleLine(c) == Cities[c].city \o <<" ", EmDash, " ">> \o Cities[c].label \o <<":">>

\* "- Label: value"
BulletLine(c, k) == <<"-", " ">> \o BulletLabels[k] \o <<":", " ">> \o Cities[c].values[k]

\* a title line followed by its first n bullet lines
BlockLines(b) == <<TitleLine(b.c)>> \o [k \in 1..b.n |-> BulletLine(b.c, k)]

RECURSIVE JoinLines(_)
JoinLines(lines) ==
  IF lines = <<>> THEN <<>>
  ELSE IF Len(lines) = 1 THEN lines[1]
  ELSE lines[1] \o <<LF>> \o JoinLines(Tail(lines))

Blocks == [c : DOMAIN Cities, n : 0..MaxBullets]

BlockSeqs == UNION { [1..n -> Blocks] : n \in 1..MaxBlocks }

ReportFrame(bs) ==
  [kind |-> "report",
   text |-> JoinLines(Flatten([k \in DOMAIN bs |-> BlockLines(bs[k])])),
   parts |-> bs]

\* message buffers that are no report
PlainBuffers ==
  { <<>>,
    Mumbai,
    Mumbai \o <<" ">> \o NowLabel \o <<":", " ">> \o Celsius28,
    <<"H", "i", " ", "a", "l", "l", LF, "B", "y", "e", LF>>,
    <<"-", " ", "o", "n", "e", LF, "-", " ", "t", "w", "o", LF, LF, "e", "n", "d">>,
    <<"*", "*", "G", "o", "a", "*", "*", LF, "a", ".", " ", "s", "u", "n">> }

PlainFrame(t) == [kind |-> "plain", text |-> t, parts |-> <<>>]

RenderFrames == {ReportFrame(bs) : bs \in BlockSeqs} \cup {PlainFrame(t) : t \in PlainBuffers}

\* fragments that arrive after the buffer was rendered
AppendTexts ==
  { <<" ", "o", "k">>,
    <<LF>>,
    <<":", " ", "x">>,
    Mumbai \o <<":", " ", "h", "o", "t">>,
    <<LF, "-", " ", "W", "i", "n", "d", ":", " ", "5">> }

RenderInit ==
  /\ isLoading = FALSE
  /\ error = Null
  /\ abortRef = 0
  /\ ops = [i \in 1..MaxSends |-> Idle]
  /\ nOps = 0
  /\ messages = <<>>
  /\ inputValue = <<>>
  /\ rawFrame \in RenderFrames
  /\ extracted = NotCalled
  /\ agentContent = <<rawFrame.text>>

\* onChunk of handleSendMessage: the message content becomes the buffer plus
\* the fragment, and the message is rendered again from the whole content
AppendText(t) ==
  /\ Len(agentContent) <= MaxAppends
  /\ agentContent' = Append(agentContent, t)
  /\ UNCHANGED <<isLoading, error, abortRef, ops, nOps, messages, inputValue,
                 rawFrame, extracted>>

RenderNext == \E t \in AppendTexts : AppendText(t)

RenderSpec == RenderInit /\ [][RenderNext]_vars

\* ------------------------------------------------------------------ properties

Calls == 1..MaxSends

IsChunk(e) == e.kind = "chunk"
IsTerminal(e) == e.kind \in {"complete", "error"}

TextsOf(events) == [k \in DOMAIN events |-> events[k].text]

\* the fragments a call has delivered to onChunk, in delivery order
ChunkTexts(log) == TextsOf(SelectSeq(log, IsChunk))

\* the callbacks of a log without the state of the signal
Outcome(log) == [k \in DOMAIN log |-> [kind |-> log[k].kind, text |-> log[k].text]]

\* the bytes a call has read so far
Consumed(op) == SubSeq(Streams[op.stream], 1, op.pos)

\* the complete lines of a decoded text
CompleteLines(text) == SubStr(SplitLines(text), 1, Len(SplitLines(text)) - 1)

LinesRead(op) == CompleteLines(Decode(Consumed(op), FALSE, <<>>).text)

\* C1: at most one non-aborted transport operation is in flight: every call in
\* flight other than the one of the controller in abortRef has been aborted
C1_AtMostOneInFlight ==
  /\ \A i \in Calls : (InFlight(ops[i]) /\ i # abortRef) => ops[i].aborted
  /\ \A i, j \in Calls :
       (InFlight(ops[i]) /\ ~ops[i].aborted /\ InFlight(ops[j]) /\ ~ops[j].aborted)
         => i = j

\* a second send came while the call of the first was in flight
C1_Superseded ==
  \E i, j \in Calls :
    /\ i < j
    /\ InFlight(ops[i]) /\ ops[i].aborted
    /\ InFlight(ops[j]) /\ ~ops[j].aborted

\* C2: isLoading is true in every state in which a call that has not been
\* aborted is in flight
C2_LoadingWhileInFlight ==
  \A i \in Calls : (InFlight(ops[i]) /\ ~ops[i].aborted) => isLoading

\* call i, aborted while it awaits fetch or read, settles
CancelSettles(i) ==
  /\ ops[i].aborted
  /\ ops[i].pc \in {"fetch", "read"}
  /\ ops'[i].pc = "done"

\* C3: cancellation is silent: the step in which a cancelled call settles
\* leaves error as it was
C3_CancellationSilent ==
  [][\A i \in Calls : CancelSettles(i) => error' = error]_vars

\* C4: no onChunk is invoked for a call once its signal is aborted
C4_NoChunkAfterCancel ==
  \A i \in Calls : \A k \in DOMAIN ops[i].log :
    IsChunk(ops[i].log[k]) => ~ops[i].log[k].aborted

Terminals(log) == { k \in DOMAIN log : IsTerminal(log[k]) }

EmitIdx(lines) ==
  { k \in DOMAIN lines :
      /\ LineStep(lines[k]).kind = "emit"
      /\ \A j \in 1..k : LineStep(lines[j]).kind # "done" }

Rank(K, k) == Cardinality({ m \in K : m <= k })

InLineOrder(texts, lines, K) ==
  /\ Len(texts) = Cardinality(K)
  /\ \A k \in K : texts[Rank(K, k)] = LineStep(lines[k]).text

FragmentsInOrder(texts, lines) == InLineOrder(texts, lines, EmitIdx(lines))

ContentIs(id, content) ==
  \A k \in DOMAIN messages : messages[k].id = id => messages[k].content = content

\* C6: the fragments delivered are those of the lines read, one per emitting
\* line and in the order of the lines, and the content of the assistant message
\* of a turn is their concatenation in delivery order
C6_FragmentsInOrder ==
  \A i \in Calls :
    /\ ops[i].stream # 0 => FragmentsInOrder(ChunkTexts(ops[i].log), LinesRead(ops[i]))
    /\ ops[i].cb = "ui" =>
         /\ ops[i].assistantBuffer = Flatten(ChunkTexts(ops[i].log))
         /\ ContentIs(ops[i].msgId, ops[i].assistantBuffer)

\* the assistant message of a turn holds two fragments
C6_TwoFragmentsShown ==
  \E i \in Calls : \E k \in DOMAIN messages :
    /\ ops[i].cb = "ui"
    /\ messages[k].id = ops[i].msgId
    /\ Len(ChunkTexts(ops[i].log)) = 2
    /\ messages[k].content = Flatten(ChunkTexts(ops[i].log))

\* the callbacks of the read loop when body s arrives as a single chunk
WithComplete(events) ==
  IF Returned(events) THEN events
  ELSE Append(events, [kind |-> "complete", text |-> <<>>])

SingleChunk(s) == WithComplete(ProcessChunk(<<>>, FALSE, Streams[s]).events)

IsPrefix(a, b) == Len(a) <= Len(b) /\ a = SubSeq(b, 1, Len(a))

Completed(op) ==
  op.pc = "done" /\ op.log # <<>> /\ op.log[Len(op.log)].kind = "complete"

\* C7: however the body is cut into chunks, the callbacks of the read loop are
\* those of the body delivered as a single chunk: the same while it reads, and
\* the same with the same end once it has completed
C7_ChunkingIndependent ==
  \A i \in Calls :
    /\ (ops[i].pc = "read" /\ ~ops[i].aborted)
         => /\ IsPrefix(Outcome(ops[i].log), SingleChunk(ops[i].stream))
            /\ Outcome(ops[i].log) = ProcessChunk(<<>>, FALSE, Consumed(ops[i])).events
    /\ (Completed(ops[i]) /\ ops[i].stream # 0)
         => Outcome(ops[i].log) = SingleChunk(ops[i].stream)

\* a chunk ended inside a line and inside a two-byte character, after a fragment
C7_SplitInsideCharacter ==
  /\ ops[1].pc = "read"
  /\ ops[1].pending
  /\ ops[1].buffer # <<>>
  /\ ops[1].log # <<>>

\* C8: the text [DONE] is never delivered as a fragment
C8_DoneEndsStream ==
  \A i \in Calls : \A k \in DOMAIN ops[i].log :
    IsChunk(ops[i].log[k]) => ops[i].log[k].text # DoneSentinel

SendStarts == ~isLoading /\ isLoading' => nOps' = nOps + 1

\* C9: every call that send starts ends, and isLoading, once true, becomes
\* false, and then stays false until the next send
C9_EverySendEnds ==
  /\ \A i \in Calls : (ops[i].pc # "idle") ~> (ops[i].pc = "done")
  /\ isLoading ~> ~isLoading
  /\ [][SendStarts]_vars

\* every call has ended, one of them cancelled, and isLoading is false
C9_AllEnded ==
  /\ ~isLoading
  /\ nOps = MaxSends
  /\ \A i \in Calls : ops[i].pc = "done"
  /\ \E i \in Calls : ops[i].aborted

\* C10: when the body is exhausted with no sentinel seen, the call completes:
\* onComplete is its one terminal callback, and isLoading is false and error
\* null after it
C10_ExhaustionCompletes ==
  [][\A i \in Calls :
       ReadEnd(i) => /\ ~isLoading'
                     /\ error' = Null
                     /\ Terminals(ops'[i].log) = {Len(ops'[i].log)}
                     /\ ops'[i].log[Len(ops'[i].log)].kind = "complete"]_vars

\* a message holds a piece of text
Contains(msg, piece) == \E k \in DOMAIN msg : msg[k] = piece

HttpSettles(i) == ops[i].pc = "text" /\ ops'[i].pc = "done"

\* C11 as stated: when a response with a non-success status ends its call, the
\* error shown holds the status code and, if the response has a body, the body
C11_HttpErrorShown ==
  [][\A i \in Calls :
       HttpSettles(i) =>
         /\ Contains(error', ops[i].http.status)
         /\ ops[i].http.body # "" => Contains(error', ops[i].http.body)]_vars

\* C11 amended: a response with a non-success status ends its call with one
\* callback, an error whose message holds the status code and, if the body was
\* read and is not empty, the body; the error shown is that message when the
\* device is online and the offline message when it is not
C11_HttpErrorReported ==
  [][\A i \in Calls : \A rejected, onLine \in BOOLEAN :
       TextSettle(i, rejected, onLine) =>
         /\ Len(ops'[i].log) = 1
         /\ ops'[i].log[1].kind = "error"
         /\ Contains(ops'[i].log[1].text, ops[i].http.status)
         /\ (~rejected /\ ops[i].http.body # "")
              => Contains(ops'[i].log[1].text, ops[i].http.body)
         /\ error' = IF onLine THEN ops'[i].log[1].text ELSE OfflineMessage]_vars

\* status 500 with body "overloaded": the error shown holds both
C11_OverloadedShown ==
  \E i \in Calls :
    /\ ops[i].pc = "done"
    /\ ops[i].http.status = "500"
    /\ ops[i].log = <<[kind |-> "error", aborted |-> FALSE, text |-> error]>>
    /\ Contains(error, "500") /\ Contains(error, "overloaded")

\* the message of the last callback of a call
LastText(log) == log[Len(log)].text

\* the failure of call i that is not a cancellation, with the connectivity
\* signal reporting onLine
Fails(i, onLine) ==
  \/ FetchFail(i, onLine)
  \/ FetchNoBody(i, onLine)
  \/ ReadFail(i, onLine)
  \/ \E rejected \in BOOLEAN : TextSettle(i, rejected, onLine)

\* C12: a failure that is not a cancellation sets isLoading to false and error
\* to the offline message when the device is offline, to the network message
\* when the message of the failure is 'Failed to fetch', and to the message of
\* the failure otherwise
C12_FailureMapping ==
  [][\A i \in Calls : \A onLine \in BOOLEAN :
       Fails(i, onLine) =>
         /\ ~isLoading'
         /\ ops'[i].log[Len(ops'[i].log)].kind = "error"
         /\ ~onLine => error' = <<"You are offline. Check your connection and try again.">>
         /\ (onLine /\ LastText(ops'[i].log) = <<"Failed to fetch">>)
              => error' = <<"Network error. Please try again.">>
         /\ (onLine /\ LastText(ops'[i].log) # <<"Failed to fetch">>)
              => error' = LastText(ops'[i].log)
         /\ FetchFail(i, onLine) => LastText(ops'[i].log) = <<"Failed to fetch">>
         /\ FetchNoBody(i, onLine)
              => LastText(ops'[i].log) = <<"No response body reader available">>]_vars

\* a fetch that failed while online shows the network message
C12_NetworkMessageShown ==
  \E i \in Calls :
    /\ ops[i].pc = "done" /\ ~ops[i].aborted /\ ~isLoading
    /\ ops[i].log # <<>>
    /\ LastText(ops[i].log) = <<"Failed to fetch">>
    /\ error = <<"Network error. Please try again.">>

\* the last turn has failed and its error banner is shown
TurnFailed ==
  /\ nOps >= 1 /\ nOps < MaxSends
  /\ ops[nOps].pc = "done" /\ ops[nOps].cb = "ui"
  /\ ops[nOps].log[Len(ops[nOps].log)].kind = "error"
  /\ error # Null /\ ~isLoading

\* C13: Retry after a failed turn starts a new send with the text of that turn
C13_RetryResends ==
  [][(TurnFailed /\ Retry) =>
       /\ nOps' = nOps + 1
       /\ InFlight(ops'[nOps + 1])
       /\ ops'[nOps + 1].text = ops[nOps].text]_vars

\* C14: a failure of the transport or of the HTTP exchange leaves every
\* message as it was: those of the prior turns, and the assistant message of
\* the failing turn, which holds the fragments delivered before the failure
C14_FailureKeepsMessages ==
  [][\A i \in Calls : \A onLine \in BOOLEAN :
       Fails(i, onLine) =>
         /\ messages' = messages
         /\ ops'[i].cb = "ui" =>
              \A k \in DOMAIN messages' :
                messages'[k].id = ops'[i].msgId
                  => messages'[k].content = Flatten(ChunkTexts(ops'[i].log))]_vars

\* the second turn failed after a fragment: both turns are shown, the first
\* complete and the second with the fragment it got
C14_SecondTurnFailed ==
  /\ nOps = 2 /\ Len(messages) = 4
  /\ ops[2].pc = "done" /\ ~ops[2].aborted /\ ops[2].cb = "ui"
  /\ ops[2].log[Len(ops[2].log)].kind = "error"
  /\ messages[2].content # <<>>
  /\ messages[4].id = ops[2].msgId
  /\ messages[4].content # <<>>
  /\ messages[4].content = Flatten(ChunkTexts(ops[2].log))

\* C15: for a frame made of one or more tokens digits:"quoted text", the
\* extractor returns the quoted texts, concatenated in order
C15_TokensConcatenated ==
  (rawFrame.kind = "tokens" /\ extracted # NotCalled)
    => extracted = Flatten(rawFrame.parts)

\* C16: for a bare JSON object with a toolCallId, toolName, messageId or
\* finishReason member the extractor returns the empty string
C16_MetadataDropped ==
  (/\ rawFrame.kind = "object"
   /\ extracted # NotCalled
   /\ \E k \in DOMAIN rawFrame.parts : rawFrame.parts[k] \in MetadataKeys)
    => extracted = <<>>

\* the text after the leading digits and colon starts, after spaces, with an
\* opening brace that a closing brace follows
ObjectFollows(rest) ==
  /\ StartsWith(rest, <<"{">>)
  /\ IndexFrom(rest, "}", 2) # 0

IndexThenObject(trimmed) ==
  /\ HasIndexPrefix(trimmed)
  /\ ObjectFollows(TrimStart(SubStr(trimmed, DigitRunEnd(trimmed, 1) + 1, Len(trimmed))))

\* the shapes the extractor treats specially: a control prefix, a token, an
\* index followed by an object, a bare metadata object
Recognised(text) ==
  \/ HasControlPrefix(text)
  \/ QuotedTokens(text, 1) # <<>>
  \/ IndexThenObject(TrimStart(text))
  \/ IsMetadataObject(TrimStart(text))

\* C17: a frame of none of the recognised shapes is returned unchanged, also
\* when it begins with digits and a colon
C17_PassThrough ==
  (rawFrame.kind = "chars" /\ extracted # NotCalled /\ ~Recognised(rawFrame.text))
    => extracted = rawFrame.text

\* C18: appending text to the message buffer and rendering again keeps every
\* unit of the previous render but its last one, in the same order
RECURSIVE Embeds(_, _)
Embeds(a, b) ==
  IF a = <<>> THEN TRUE
  ELSE IF b = <<>> THEN FALSE
  ELSE IF Head(a) = Head(b) THEN Embeds(Tail(a), Tail(b))
  ELSE Embeds(a, Tail(b))

Finalized(units) == SubSeq(units, 1, Len(units) - 1)

C18_FinalizedUnitsKept ==
  [][Embeds(Finalized(formatAgentMessage(Flatten(agentContent))),
            formatAgentMessage(Flatten(agentContent')))]_vars

\* C19: a report of "City - Label:" title lines, each followed by
\* "- Label: value" bullet lines, renders as one section per title line, titled
\* with the city, whose rows are the bullets split into a bold label and the
\* remainder; the Mumbai and Delhi example gives two sections of two rows
ReportRow(c, k) ==
  <<[tag |-> "strong", text |-> Append(BulletLabels[k], ":")],
    [tag |-> "span", text |-> Cities[c].values[k]]>>

ReportSection(b) ==
  [tag |-> "section", title |-> Cities[b.c].city,
   items |-> [k \in 1..b.n |-> ReportRow(b.c, k)]]

ExampleReport == <<[c |-> 1, n |-> 2], [c |-> 2, n |-> 1]>>

TwoSectionsOfTwoRows(units) ==
  /\ Len(units) = 2
  /\ units[1].title = Mumbai /\ Len(units[1].items) = 2
  /\ units[2].title = Delhi /\ Len(units[2].items) = 2

C19_ReportSections ==
  (rawFrame.kind = "report" /\ Len(agentContent) = 1) =>
    /\ formatAgentMessage(rawFrame.text)
         = [k \in DOMAIN rawFrame.parts |-> ReportSection(rawFrame.parts[k])]
    /\ rawFrame.parts = ExampleReport => TwoSectionsOfTwoRows(formatAgentMessage(rawFrame.text))

\* C20: the stream of data: 0:"Mumbai", data: 0:" Now: 28C", data: [DONE]
\* delivers the fragments "Mumbai" and " Now: 28C" in that order, the message
\* buffer ends as "Mumbai Now: 28C", and its render has no section and is
\* exactly one paragraph
MumbaiRest == <<" ">> \o NowLabel \o <<":", " ">> \o Celsius28

MumbaiShown(i, k) ==
  /\ ops[i].stream \in DOMAIN Streams /\ Streams[ops[i].stream] = MumbaiLines
  /\ ops[i].cb = "ui" /\ Completed(ops[i])
  /\ messages[k].id = ops[i].msgId

OneParagraph(units) == Len(units) = 1 /\ units[1].tag = "p"

C20_MumbaiParagraph ==
  \A i \in Calls : \A k \in DOMAIN messages :
    MumbaiShown(i, k) =>
      /\ ChunkTexts(ops[i].log) = <<Mumbai, MumbaiRest>>
      /\ messages[k].content = Mumbai \o MumbaiRest
      /\ OneParagraph(formatAgentMessage(messages[k].content))

\* C20 (amended): the same fragments and the same buffer; the render is
\* exactly one section titled "Mumbai Now" whose only row is "28C", and no
\* paragraph
MumbaiNowSection ==
  <<[tag |-> "section", title |-> Mumbai \o <<" ">> \o NowLabel,
     items |-> <<<<[tag |-> "span", text |-> Celsius28]>>>>]>>

C20_MumbaiSection ==
  \A i \in Calls : \A k \in DOMAIN messages :
    MumbaiShown(i, k) =>
      /\ ChunkTexts(ops[i].log) = <<Mumbai, MumbaiRest>>
      /\ messages[k].content = Mumbai \o MumbaiRest
      /\ formatAgentMessage(messages[k].content) = MumbaiNowSection

C20_MumbaiRendered ==
  \E i \in Calls : \E k \in DOMAIN messages :
    MumbaiShown(i, k) /\ messages[k].content = Mumbai \o MumbaiRest

\* C21: only non-empty text is delivered: a line of whitespace only is skipped
\* and never reaches the extractor, a line whose extracted text is empty after
\* the escaped newlines are normalized makes no onChunk call, and every
\* onChunk call receives a string of length at least one
IsBlank(line) == \A k \in DOMAIN line : IsWS(line[k])

Payload(line) == IF StartsWith(line, DataPrefix) THEN SubStr(line, 7, Len(line)) ELSE line

Cleaned(line) == NormalizeNewlines(extractTextFromTokenStream(Payload(line)))

IsSentinelLine(line) == line = DataPrefix \o DoneSentinel

\* the lines up to the first data: [DONE] line
RECURSIVE BeforeSentinel(_)
BeforeSentinel(lines) ==
  IF lines = <<>> \/ IsSentinelLine(Head(lines)) THEN <<>>
  ELSE <<Head(lines)>> \o BeforeSentinel(Tail(lines))

HasText(line) == ~IsBlank(line) /\ Cleaned(line) # <<>>

\* the texts of the lines that are not blank and extract to some text
TextLines(lines) ==
  [k \in DOMAIN SelectSeq(lines, HasText) |-> Cleaned(SelectSeq(lines, HasText)[k])]

C21_OnlyTextDelivered ==
  \A i \in Calls :
    /\ \A k \in DOMAIN ops[i].log :
         IsChunk(ops[i].log[k]) => Len(ops[i].log[k].text) >= 1
    /\ ops[i].stream # 0
         => ChunkTexts(ops[i].log) = TextLines(BeforeSentinel(LinesRead(ops[i])))

\* a call has read a blank line and a line that extracts to nothing, and has
\* delivered a fragment of a later line
BlankAt(lines, k) == lines[k] # <<>> /\ IsBlank(lines[k])

EmptyAt(lines, k) == ~IsBlank(lines[k]) /\ Cleaned(lines[k]) = <<>>

SkippedThenText(lines) ==
  \E a, b, c \in DOMAIN lines :
    a < c /\ b < c /\ BlankAt(lines, a) /\ EmptyAt(lines, b) /\ HasText(lines[c])

C21_TextAfterSkippedLines ==
  \E i \in Calls :
    /\ ops[i].stream # 0
    /\ SkippedThenText(BeforeSentinel(LinesRead(ops[i])))
    /\ ChunkTexts(ops[i].log) = TextLines(BeforeSentinel(LinesRead(ops[i])))

\* C22: only newline-terminated lines are processed: when the byte stream
\* ends, the text still held back in the line buffer is discarded, neither
\* extracted nor emitted, and the session ends with a single onComplete
WholeBody(op) == Decode(Streams[op.stream], FALSE, <<>>).text

HeldBack(op) == SplitLines(WholeBody(op))[Len(SplitLines(WholeBody(op)))]

C22_HeldBackTextDiscarded ==
  [][\A i \in Calls :
       ReadEnd(i) =>
         /\ Outcome(ops'[i].log)
              = Append(Outcome(ops[i].log), [kind |-> "complete", text |-> <<>>])
         /\ Terminals(ops'[i].log) = {Len(ops'[i].log)}
         /\ ChunkTexts(ops'[i].log)
              = TextLines(BeforeSentinel(CompleteLines(WholeBody(ops[i]))))]_vars

\* a call has completed at the end of a body whose last line has no newline
\* and holds text
C22_UnterminatedLineDropped ==
  \E i \in Calls :
    /\ Completed(ops[i]) /\ ops[i].stream # 0
    /\ ops[i].pos = Len(Streams[ops[i].stream])
    /\ HasText(HeldBack(ops[i]))
    /\ ops[i].buffer = HeldBack(ops[i])

====
